---- MODULE Spec2Model ----
(***************************************************************************)
(* Model of the token-to-segment pipeline of transcript_converter          *)
(* (src/proc_asr.py): make_toks_arr, check_toks_arr, sanitize_toks_arr,    *)
(* split_long_segs and make_sts_arr, applied to a caller's token table or  *)
(* view, and of the part of mmif_to_all                                    *)
(* (src/transcript_converter/convert.py) that composes them; and of        *)
(* break_long_line applied to a segment text.                              *)
(*                                                                         *)
(* Python objects live in a heap: a token table is a list of references to *)
(* row objects [start, end, text, label], so that copying and in-place     *)
(* assignment (t[3] = ...) are modelled as the code performs them.         *)
(* A text is a sequence of one-character strings.  A label is a Python     *)
(* value: a str, None, or an int.                                          *)
(***************************************************************************)
EXTENDS Integers, Sequences, FiniteSets, TLC

VARIABLES
    heap,               \* Seq of row objects; an address is an index into it
    caller,             \* the caller's token table: Seq of addresses
    orig,               \* the caller's rows as they were when the table was handed over
    max_chars,          \* argument max_chars
    max_toks_backtrack, \* argument max_toks_backtrack
    min_toks_dangled,   \* argument min_toks_dangled
    pc,                 \* position of the calling program
    cur,                \* the table the next stage is applied to: Seq of addresses
    calls,              \* the functions the program has called so far, in order
    done,               \* the calls that have returned: subset of {"check", "sanitize", "split", "assemble"}
    stack,              \* activation records of split_long_segs, innermost last
    split_in,           \* the table passed to the outermost split_long_segs
    split_out,          \* the table returned by the outermost split_long_segs
    sts_arr,            \* the list returned by make_sts_arr
    issues,             \* the dictionary returned by check_toks_arr
    err,                \* the exception that ended the run, "" when none
    entry,              \* "direct": the caller calls the functions of proc_asr itself;
                        \* "mmif_to_all": the caller calls mmif_to_all
    view,               \* the ASR view handed to make_toks_arr
    result,             \* what mmif_to_all returned
    segment,            \* the text handed to break_long_line
    max_line_chars,     \* argument max_line_chars
    split_seg           \* the text break_long_line returned

vars == << heap, caller, orig, max_chars, max_toks_backtrack, min_toks_dangled,
           pc, cur, calls, done, stack, split_in, split_out, sts_arr, issues, err,
           entry, view, result, segment, max_line_chars, split_seg >>

-----------------------------------------------------------------------------
(* Bounds of the model *)

MaxToks == 3
MaxRun == 4
MaxViewToks == 2
MaxSeg == 6
MaxLine == 4

-----------------------------------------------------------------------------
(* Python values *)

PyStr(s) == [kind |-> "str", s |-> s]
PyNone == [kind |-> "none", s |-> ""]
PyInt(s) == [kind |-> "int", s |-> s]

\* isinstance(v, str)
IsStr(v) == v.kind = "str"

\* Python truthiness of a label value: None, "" and 0 are falsy
Truthy(v) ==
    CASE v.kind = "none" -> FALSE
      [] v.kind = "str" -> v.s # ""
      [] OTHER -> v.s # "0"

\* s[:k], including Python's meaning of a negative k
SliceTo(s, k) ==
    LET n == Len(s)
        e == IF k >= 0 THEN (IF k < n THEN k ELSE n)
                       ELSE (IF n + k > 0 THEN n + k ELSE 0)
    IN  SubSeq(s, 1, e)

\* the concatenation of a sequence of sequences
RECURSIVE Flatten(_)
Flatten(sqs) == IF sqs = << >> THEN << >> ELSE Head(sqs) \o Flatten(Tail(sqs))

-----------------------------------------------------------------------------
(* Module constants of proc_asr.py *)

NO_SPACE_BEFORE == {".", ",", "-", "/"}
splitting_punc == {".", ","}
common_abbrevs ==
    { <<"M","r",".">>, <<"M","r","s",".">>, <<"M","s",".">>, <<"D","r",".">>,
      <<"S","r",".">>, <<"S","r","a",".">>, <<"S","r","t","a",".">> }
DEFAULT_SENTENCE_ID == PyStr("no_sentence")
LabelSuffix == "_x"
MinMaxChars == 10
TokMargin == 3

-----------------------------------------------------------------------------
(* Heap helpers *)

Row(s, e, t, l) == [start |-> s, end |-> e, text |-> t, label |-> l]

\* the row objects a table refers to, as values
Rows(h, tab) == [i \in 1..Len(tab) |-> h[tab[i]]]

Labels(h, tab) == [i \in 1..Len(tab) |-> h[tab[i]].label]
Texts(h, tab) == [i \in 1..Len(tab) |-> h[tab[i]].text]

\* t[3] = v for the row object at address a
SetLabel(h, a, v) == [h EXCEPT ![a].label = v]
SetText(h, a, v) == [h EXCEPT ![a].text = v]

\* copy.deepcopy(tab): fresh row objects, a fresh list
DeepCopy(h, tab) ==
    [ heap |-> h \o Rows(h, tab),
      tab  |-> [i \in 1..Len(tab) |-> Len(h) + i] ]

-----------------------------------------------------------------------------
(* make_toks_arr *)

\* A view holds its annotations by type, in document order:
\*   tokens      Seq of [id, word]
\*   timeframes  Seq of [id, frameType, start, end]
\*   alignments  Seq of [source, target]
\*   sentences   Seq of [id, targets], targets a Seq of token ids
\* Annotation ids are unique within a view.
View(toanns, tfanns, alanns, stanns) ==
    [ tokens |-> toanns, timeframes |-> tfanns, alignments |-> alanns, sentences |-> stanns ]

\* an entry of the dictionary tos; tspan is << >> and sid is None until set
TokEntry(id, word) == [id |-> id, word |-> word, tspan |-> << >>, sid |-> PyNone]

\* `key in d` and the position of key in d, for a dictionary kept as a
\* sequence of entries in insertion order
HasKey(d, key) == \E k \in 1..Len(d) : d[k].id = key
KeyPos(d, key) == CHOOSE k \in 1..Len(d) : d[k].id = key

\* tos: one entry per token annotation
TosOf(toanns) == [k \in 1..Len(toanns) |-> TokEntry(toanns[k].id, toanns[k].word)]

\* tfs: the time frames whose frameType is "speech"
RECURSIVE TfsOf(_)
TfsOf(tfanns) ==
    IF tfanns = << >> THEN << >>
    ELSE (IF Head(tfanns).frameType = "speech" THEN << Head(tfanns) >> ELSE << >>)
         \o TfsOf(Tail(tfanns))

\* variant: a second alignment replaces the time span
AlignStep_Overwrite(tos, tfs, ann) ==
    IF HasKey(tos, ann.target) /\ HasKey(tfs, ann.source)
      THEN LET k == KeyPos(tos, ann.target)
               f == tfs[KeyPos(tfs, ann.source)]
           IN  [raises |-> FALSE, tos |-> [tos EXCEPT ![k].tspan = << f.start, f.end >>]]
      ELSE [raises |-> FALSE, tos |-> tos]

\* the body of `for ann in alanns`: [raises, tos]
AlignStep(tos, tfs, ann) ==
    IF HasKey(tos, ann.target) /\ HasKey(tfs, ann.source)
      THEN LET k == KeyPos(tos, ann.target)
               f == tfs[KeyPos(tfs, ann.source)]
           IN  IF tos[k].tspan = << >>
                 THEN [raises |-> FALSE, tos |-> [tos EXCEPT ![k].tspan = << f.start, f.end >>]]
                 ELSE [raises |-> TRUE, tos |-> tos]
      ELSE [raises |-> FALSE, tos |-> tos]

RECURSIVE AlignLoop(_, _, _)
AlignLoop(tos, tfs, alanns) ==
    IF alanns = << >> THEN [raises |-> FALSE, tos |-> tos]
    ELSE LET r == AlignStep(tos, tfs, Head(alanns))
         IN  IF r.raises THEN r ELSE AlignLoop(r.tos, tfs, Tail(alanns))

\* the body of `for tid in ann.get_property("targets")`: [raises, tos];
\* tos[tid] raises KeyError for an id that is not a token's
SentStep(tos, sid, tid) ==
    IF ~HasKey(tos, tid) THEN [raises |-> TRUE, tos |-> tos]
    ELSE LET k == KeyPos(tos, tid)
         IN  IF tos[k].sid = PyNone
               THEN [raises |-> FALSE, tos |-> [tos EXCEPT ![k].sid = PyStr(sid)]]
               ELSE [raises |-> TRUE, tos |-> tos]

RECURSIVE TargetsLoop(_, _, _)
TargetsLoop(tos, sid, targets) ==
    IF targets = << >> THEN [raises |-> FALSE, tos |-> tos]
    ELSE LET r == SentStep(tos, sid, Head(targets))
         IN  IF r.raises THEN r ELSE TargetsLoop(r.tos, sid, Tail(targets))

RECURSIVE SentLoop(_, _)
SentLoop(tos, stanns) ==
    IF stanns = << >> THEN [raises |-> FALSE, tos |-> tos]
    ELSE LET r == TargetsLoop(tos, Head(stanns).id, Head(stanns).targets)
         IN  IF r.raises THEN r ELSE SentLoop(r.tos, Tail(stanns))

RECURSIVE SelectAligned(_)
SelectAligned(tos) ==
    IF tos = << >> THEN << >>
    ELSE (IF Head(tos).tspan = << >> THEN << >> ELSE << Head(tos) >>)
         \o SelectAligned(Tail(tos))

\* [start, end, word, sid] for an entry that has a time span
RowOf(e) == Row(e.tspan[1], e.tspan[2], e.word, e.sid)

\* variant: entries without a time span are left out
BuildRows_Skip(tos) ==
    LET al == SelectAligned(tos)
    IN  [raises |-> FALSE, rows |-> [k \in 1..Len(al) |-> RowOf(al[k])]]

\* the list comprehension over tos: [raises, rows]; tos[k]["tspan"] raises
\* KeyError for an entry that got no time span
BuildRows(tos) ==
    IF \E k \in 1..Len(tos) : tos[k].tspan = << >>
      THEN [raises |-> TRUE, rows |-> << >>]
      ELSE [raises |-> FALSE, rows |-> [k \in 1..Len(tos) |-> RowOf(tos[k])]]

\* variant: a row goes before the rows of the same start
SortInsert_Before(sorted, r) ==
    LET n == Cardinality({ k \in 1..Len(sorted) : sorted[k].start < r.start })
    IN  SubSeq(sorted, 1, n) \o << r >> \o SubSeq(sorted, n + 1, Len(sorted))

\* where a stable sort by start puts the next row among those before it
SortInsert(sorted, r) ==
    LET n == Cardinality({ k \in 1..Len(sorted) : sorted[k].start <= r.start })
    IN  SubSeq(sorted, 1, n) \o << r >> \o SubSeq(sorted, n + 1, Len(sorted))

\* toks_arr.sort(key=lambda f: f[0]): list.sort is stable
RECURSIVE SortByStart(_, _)
SortByStart(rows, sorted) ==
    IF rows = << >> THEN sorted
    ELSE SortByStart(Tail(rows), SortInsert(sorted, Head(rows)))

\* make_toks_arr(asr_view): [raises, exc, rows]
make_toks_arr(asr_view) ==
    LET tfs == TfsOf(asr_view.timeframes)
        a == AlignLoop(TosOf(asr_view.tokens), tfs, asr_view.alignments)
        s == SentLoop(a.tos, asr_view.sentences)
        b == BuildRows(s.tos)
    IN  IF a.raises \/ s.raises \/ b.raises
          THEN [raises |-> TRUE, exc |-> "KeyError", rows |-> << >>]
          ELSE [raises |-> FALSE, exc |-> "", rows |-> SortByStart(b.rows, << >>)]

-----------------------------------------------------------------------------
(* sanitize_toks_arr *)

\* variant: only an absent label is replaced
SanitizeRow_NoneOnly(h, a, mc) ==
    LET max_tok_chars == mc - TokMargin
        h1 == IF Len(h[a].text) > max_tok_chars
                THEN SetText(h, a, SliceTo(h[a].text, max_tok_chars))
                ELSE h
    IN  IF h1[a].label = PyNone
          THEN SetLabel(h1, a, DEFAULT_SENTENCE_ID)
          ELSE h1

\* the body of the loop `for r in toks_arr` for one row object
SanitizeRow(h, a, mc) ==
    LET max_tok_chars == mc - TokMargin
        h1 == IF Len(h[a].text) > max_tok_chars
                THEN SetText(h, a, SliceTo(h[a].text, max_tok_chars))
                ELSE h
    IN  IF ~Truthy(h1[a].label) \/ ~IsStr(h1[a].label)
          THEN SetLabel(h1, a, DEFAULT_SENTENCE_ID)
          ELSE h1

RECURSIVE SanitizeLoop(_, _, _, _)
SanitizeLoop(h, tab, i, mc) ==
    IF i > Len(tab) THEN h
    ELSE SanitizeLoop(SanitizeRow(h, tab[i], mc), tab, i + 1, mc)

\* the copy the sanitizer works on
SanitizeCopy(h, tab) == DeepCopy(h, tab)

\* sanitize_toks_arr(toks_arr_in, max_chars): the new heap and the returned table
sanitize_toks_arr(h, toks_arr_in, mc) ==
    LET cp == SanitizeCopy(h, toks_arr_in)
    IN  [ heap |-> SanitizeLoop(cp.heap, cp.tab, 1, mc), tab |-> cp.tab ]

-----------------------------------------------------------------------------
(* split_long_segs: helpers *)

\* st += " " when st is non-empty and the token does not attach; then st += t[2].
\* t[2][0] of an empty text raises IndexError.
SplitAppendRaises(st, t) == Len(st) > 0 /\ Len(t) = 0

\* variant: a space goes before every token but the first
SplitAppend_Always(st, t) ==
    IF Len(st) > 0
      THEN st \o <<" ">> \o t
      ELSE st \o t

\* the text st after one token is added
SplitAppend(st, t) ==
    IF Len(st) > 0 /\ t[1] \notin NO_SPACE_BEFORE
      THEN st \o <<" ">> \o t
      ELSE st \o t

\* the loop that computes the text of the current sentence;
\* the result is [raises, st]
RECURSIVE SplitJoin(_, _, _)
SplitJoin(texts, i, st) ==
    IF i > Len(texts) THEN [raises |-> FALSE, st |-> st]
    ELSE IF SplitAppendRaises(st, texts[i]) THEN [raises |-> TRUE, st |-> st]
    ELSE SplitJoin(texts, i + 1, SplitAppend(st, texts[i]))

\* variant: the scan only requires one token to follow
ScanAdvance_NoDangle(texts, i, st, mc, D) ==
    /\ Len(st) <= mc
    /\ Len(texts) > i + 1
    /\ texts[i + 2][1] \notin NO_SPACE_BEFORE

\* one test of the forward scan: may lasti advance to the 0-based index i ?
\* (i + 1 is a valid 0-based index whenever n > i + D and D >= 1)
ScanAdvance(texts, i, st, mc, D) ==
    /\ Len(st) <= mc
    /\ Len(texts) > i + D
    /\ texts[i + 2][1] \notin NO_SPACE_BEFORE

\* sttoks_arr[i+1][2][0] raises IndexError for an empty text, and
\* sttoks_arr[i+1] does when D < 1 lets i+1 run past the end
ScanRaises(texts, i, st, mc, D) ==
    /\ Len(st) <= mc
    /\ Len(texts) > i + D
    /\ (i + 2 > Len(texts) \/ Len(texts[i + 2]) = 0)

\* the forward scan `for i, t in enumerate(sttoks_arr)`; i is 0-based;
\* the result is [raises, lasti]
RECURSIVE ScanLoop(_, _, _, _, _, _)
ScanLoop(texts, i, st, lasti, mc, D) ==
    IF i >= Len(texts) THEN [raises |-> FALSE, lasti |-> lasti]
    ELSE IF SplitAppendRaises(st, texts[i + 1]) THEN [raises |-> TRUE, lasti |-> lasti]
    ELSE LET st1 == SplitAppend(st, texts[i + 1])
         IN  IF ScanRaises(texts, i, st1, mc, D) THEN [raises |-> TRUE, lasti |-> lasti]
             ELSE ScanLoop(texts, i + 1, st1,
                           IF ScanAdvance(texts, i, st1, mc, D) THEN i ELSE lasti,
                           mc, D)

\* t[2][-1]: the last character of a non-empty text
LastChar(t) == t[Len(t)]

\* can the split point move back by `backup` tokens from lasti ?
BacktrackOk(texts, lasti, backup) ==
    /\ lasti - backup >= 0
    /\ LastChar(texts[lasti - backup + 1]) \in splitting_punc
    /\ texts[lasti - backup + 1] \notin common_abbrevs

\* range(1, max_toks_backtrack)
BacktrackRange(B) == 1..(B - 1)

\* the backtrack refinement of lasti (texts non-empty strings)
Backtrack(texts, lasti, B) ==
    IF LastChar(texts[lasti + 1]) \notin splitting_punc
      THEN LET ok == { b \in BacktrackRange(B) : BacktrackOk(texts, lasti, b) }
           IN  IF ok = {} THEN lasti
               ELSE lasti - (CHOOSE b \in ok : \A c \in ok : b <= c)
      ELSE lasti

\* [-1] of an empty text raises IndexError
BacktrackRaises(texts, lasti, B) ==
    \/ Len(texts[lasti + 1]) = 0
    \/ /\ LastChar(texts[lasti + 1]) \notin splitting_punc
       /\ \E b \in BacktrackRange(B) :
            /\ lasti - b >= 0
            /\ Len(texts[lasti - b + 1]) = 0
            /\ \A c \in 1..(b - 1) : ~BacktrackOk(texts, lasti, c)

\* variant: the suffix is put in front
Suffixed_Swapped(l) == PyStr(LabelSuffix \o l.s)

\* t[3] + "_x"
Suffixed(l) == PyStr(l.s \o LabelSuffix)

\* for t in sttoks_arr[(lasti+1):]: t[3] = t[3] + "_x"
RECURSIVE Relabel(_, _, _)
Relabel(h, sttoks, i) ==
    IF i > Len(sttoks) THEN h
    ELSE Relabel(SetLabel(h, sttoks[i], Suffixed(h[sttoks[i]].label)), sttoks, i + 1)

\* for i, t in enumerate(sttoks_arr): t[3] = sttoks_arr_split[i][3]
RECURSIVE CopyLabelsBack(_, _, _, _)
CopyLabelsBack(h, sttoks, split, i) ==
    IF i > Len(sttoks) THEN h
    ELSE CopyLabelsBack(SetLabel(h, sttoks[i], h[split[i]].label), sttoks, split, i + 1)

\* the ordered list of distinct sentence ids of a table
RECURSIVE StIds(_, _, _)
StIds(labels, i, acc) ==
    IF i > Len(labels) THEN acc
    ELSE StIds(labels, i + 1,
               IF \E j \in 1..Len(acc) : acc[j] = labels[i] THEN acc
               ELSE Append(acc, labels[i]))

\* sttoks_arr = [ t for t in toks_arr if t[3] == st_id ]
RECURSIVE SelectSt(_, _, _, _)
SelectSt(h, tab, st_id, i) ==
    IF i > Len(tab) THEN << >>
    ELSE (IF h[tab[i]].label = st_id THEN << tab[i] >> ELSE << >>)
         \o SelectSt(h, tab, st_id, i + 1)

-----------------------------------------------------------------------------
(* make_sts_arr *)

\* A segment is [start, end, st]; the field toks lists the row objects whose
\* text was put into st, in the order they were added.
Seg(s, e, st, toks) == [start |-> s, end |-> e, text |-> st, toks |-> toks]

\* variant: a space is put before every token
StsExtend_Spaced(st, t) == st \o <<" ">> \o t

\* the same-sentence branch: st += t[2] or st += " " + t[2]
StsExtend(st, t) ==
    IF t[1] \in NO_SPACE_BEFORE THEN st \o t ELSE st \o <<" ">> \o t

\* variant: the final append is missing
StsFinish_Drop(acc, seg) == acc

\* what the final `sts_arr.append([start, end, st])` leaves in sts_arr
StsFinish(acc, seg) == Append(acc, seg)

\* the loop `for t in toks_arr[1:]` followed by the final append;
\* seg is the sentence being built, st_id its label; the result is [raises, sts]
RECURSIVE StsLoop(_, _, _, _, _, _)
StsLoop(h, tab, i, seg, st_id, acc) ==
    IF i > Len(tab) THEN [raises |-> FALSE, sts |-> StsFinish(acc, seg)]
    ELSE LET t == h[tab[i]]
         IN  IF t.label = st_id
               THEN IF Len(t.text) = 0 THEN [raises |-> TRUE, sts |-> acc]
                    ELSE StsLoop(h, tab, i + 1,
                                 Seg(seg.start, t.end, StsExtend(seg.text, t.text),
                                     Append(seg.toks, tab[i])),
                                 st_id, acc)
               ELSE StsLoop(h, tab, i + 1,
                            Seg(t.start, t.end, t.text, << tab[i] >>),
                            t.label, Append(acc, seg))

\* make_sts_arr(toks_arr); toks_arr[0] raises IndexError for an empty table
make_sts_arr(h, tab) ==
    IF Len(tab) = 0 THEN [raises |-> TRUE, sts |-> << >>]
    ELSE LET t == h[tab[1]]
         IN  StsLoop(h, tab, 2, Seg(t.start, t.end, t.text, << tab[1] >>), t.label, << >>)

-----------------------------------------------------------------------------
(* check_toks_arr *)

\* str(v)
StrOf(v) == IF v.kind = "none" THEN "None" ELSE v.s

InSeq(x, sq) == \E j \in 1..Len(sq) : sq[j] = x

\* the loop `for t in toks_arr`; c is [without, seen, last, disc]
RECURSIVE CheckLoop(_, _, _, _)
CheckLoop(h, tab, i, c) ==
    IF i > Len(tab) THEN c
    ELSE LET t == h[tab[i]]
             c1 == IF t.label # c.last
                     THEN IF ~Truthy(t.label) \/ StrOf(t.label) = "nan"
                            THEN [c EXCEPT !.without = Append(@, t.text)]
                          ELSE IF InSeq(t.label, c.seen)
                            THEN [c EXCEPT !.disc = Append(@, t.label)]
                          ELSE [c EXCEPT !.seen = Append(@, t.label), !.last = t.label]
                     ELSE c
         IN  CheckLoop(h, tab, i + 1, c1)

\* a dictionary value that is either None or a non-empty collection
Opt(isNone, v) == [none |-> isNone, val |-> v]

\* variant: last_st starts as None instead of ''
check_toks_arr_LastNone(h, tab) ==
    LET c == CheckLoop(h, tab, 1,
                       [without |-> << >>, seen |-> << >>, last |-> PyNone, disc |-> << >>])
        ds == { c.disc[j] : j \in 1..Len(c.disc) }
    IN  [ tokens_without_sentences |-> Opt(Len(c.without) = 0, c.without),
          discontinuous_sentences_ids |-> Opt(ds = {}, ds) ]

\* check_toks_arr(toks_arr).  list(set(disc_sts)) has no specified order:
\* the reported ids are modelled as the set itself.
check_toks_arr(h, tab) ==
    LET c == CheckLoop(h, tab, 1,
                       [without |-> << >>, seen |-> << >>, last |-> PyStr(""), disc |-> << >>])
        ds == { c.disc[j] : j \in 1..Len(c.disc) }
    IN  [ tokens_without_sentences |-> Opt(Len(c.without) = 0, c.without),
          discontinuous_sentences_ids |-> Opt(ds = {}, ds) ]

-----------------------------------------------------------------------------
(* split_long_segs: one activation *)

\* An activation record: the argument, the private copy, the ordered sentence
\* ids, the 1-based position k in `for st_id in st_ids`, and, while a recursive
\* call is pending, the sentence array and split index it was made for.
Frame(arg, tab, ids) ==
    [ toks_arr_in |-> arg, toks_arr |-> tab, st_ids |-> ids, k |-> 1,
      sttoks_arr |-> << >>, lasti |-> 0 ]

\* variant: the splitter works on the argument itself
SplitCopy_Alias(h, tab) == [heap |-> h, tab |-> tab]

\* the copy the splitter works on
SplitCopy(h, tab) == DeepCopy(h, tab)

\* variant: only a negative max_chars disables splitting
SplitDisabled_Neg(mc) == mc < 0

\* max_chars < 1: splitting is disabled
SplitDisabled(mc) == mc < 1

\* variant: the assertion admits one value less
ConfigOk_Off(mc) == mc >= MinMaxChars - 1

\* assert max_chars >= 10
ConfigOk(mc) == mc >= MinMaxChars

\* variant: the assertion only rejects None
LabelsOk_NotNone(labels) == \A i \in 1..Len(labels) : labels[i].kind # "none"

\* assert isinstance(t[3], str), for every token, while st_ids is built
LabelsOk(labels) == \A i \in 1..Len(labels) : IsStr(labels[i])

\* Entry of split_long_segs up to the loop over the sentences: either the call
\* returns at once, or it raises, or an activation record is set up.
SplitEnter(h, arg, mc) ==
    LET cp == SplitCopy(h, arg)
        labels == Labels(cp.heap, cp.tab)
    IN  IF SplitDisabled(mc)
          THEN [kind |-> "return", heap |-> cp.heap, tab |-> cp.tab]
        ELSE IF ~ConfigOk(mc) \/ ~LabelsOk(labels)
          THEN [kind |-> "raise", heap |-> cp.heap, exc |-> "AssertionError"]
        ELSE [kind |-> "frame", heap |-> cp.heap,
              frame |-> Frame(arg, cp.tab, StIds(labels, 1, << >>))]

\* The interpreter's recursion limit (sys.getrecursionlimit(), 1000 by default),
\* scaled to the model: no terminating call nests deeper than the table is long.
RecursionLimit == (IF MaxToks > MaxRun THEN MaxToks ELSE MaxRun) + 2

Top == stack[Len(stack)]
TopSt == SelectSt(heap, Top.toks_arr, Top.st_ids[Top.k], 1)
TopTexts == Texts(heap, TopSt)

\* variant: a sentence of exactly max_chars counts as too long
TooLong_Ge(texts, mc) ==
    LET j == SplitJoin(texts, 1, << >>)
    IN  j.raises \/ Len(j.st) >= mc

\* len(st) > max_chars for the sentence in focus
TooLong(texts, mc) ==
    LET j == SplitJoin(texts, 1, << >>)
    IN  j.raises \/ Len(j.st) > mc

\* The split index for a sentence that is too long: [raises, lasti]
SplitIndex(texts, mc, B, D) ==
    LET j == SplitJoin(texts, 1, << >>)
        sc == ScanLoop(texts, 0, << >>, 0, mc, D)
    IN  IF j.raises \/ sc.raises \/ BacktrackRaises(texts, sc.lasti, B)
          THEN [raises |-> TRUE, lasti |-> 0]
          ELSE [raises |-> FALSE, lasti |-> Backtrack(texts, sc.lasti, B)]

-----------------------------------------------------------------------------
(* break_long_line *)

NEWLINE == "\n"

\* segment.split(" "): w is the word being read
RECURSIVE SplitWords(_, _, _)
SplitWords(s, i, w) ==
    IF i > Len(s) THEN << w >>
    ELSE IF s[i] = " " THEN << w >> \o SplitWords(s, i + 1, << >>)
    ELSE SplitWords(s, i + 1, Append(w, s[i]))

\* the loop that truncates the words longer than max_line_chars
TruncateWords(wordl, mx) ==
    [i \in 1..Len(wordl) |-> IF Len(wordl[i]) > mx THEN SliceTo(wordl[i], mx) ELSE wordl[i]]

\* the 1-based position of wordl[i] for a Python index i >= -1
PyIndex(n, i) == IF i < 0 THEN n + i + 1 ELSE i + 1

\* variant: the space before the word is not counted
WrapOver_NoSpace(llen, w, mx) == llen + Len(w) > mx

\* (llen + 1 + len(wordl[i])) > max_line_chars
WrapOver(llen, w, mx) == llen + 1 + Len(w) > mx

\* the body of the loop `for i, w in enumerate(wordl)`, i 0-based: [wordl, llen];
\* for i = 0 the index i-1 is -1, the last word
WrapStep(wordl, llen, i, mx) ==
    IF WrapOver(llen, wordl[i + 1], mx)
      THEN LET w1 == [wordl EXCEPT ![PyIndex(Len(wordl), i - 1)] = @ \o << NEWLINE >>]
           IN  [wordl |-> w1, llen |-> Len(w1[i + 1])]
      ELSE [wordl |-> wordl, llen |-> llen + 1 + Len(wordl[i + 1])]

RECURSIVE WrapLoop(_, _, _, _)
WrapLoop(wordl, llen, i, mx) ==
    IF i >= Len(wordl) THEN wordl
    ELSE LET r == WrapStep(wordl, llen, i, mx)
         IN  WrapLoop(r.wordl, r.llen, i + 1, mx)

\* " ".join(wordl)
RECURSIVE JoinWords(_, _)
JoinWords(wordl, i) ==
    IF i > Len(wordl) THEN << >>
    ELSE (IF i > 1 THEN << " " >> ELSE << >>) \o wordl[i] \o JoinWords(wordl, i + 1)

\* s.replace("\n ", "\n"): occurrences are replaced from left to right
RECURSIVE ReplaceBreakSpace(_, _)
ReplaceBreakSpace(s, i) ==
    IF i > Len(s) THEN << >>
    ELSE IF s[i] = NEWLINE /\ i < Len(s) /\ s[i + 1] = " "
      THEN << NEWLINE >> \o ReplaceBreakSpace(s, i + 2)
    ELSE << s[i] >> \o ReplaceBreakSpace(s, i + 1)

\* break_long_line(segment, max_line_chars)
break_long_line(seg, mx) ==
    LET wordl == TruncateWords(SplitWords(seg, 1, << >>), mx)
    IN  ReplaceBreakSpace(JoinWords(WrapLoop(wordl, 0, 0, mx), 1), 1)

-----------------------------------------------------------------------------
(* Inputs *)

\* a word of n letters
W(n) == [i \in 1..n |-> "a"]

\* row i of a caller's table: increasing start times
InRow(i, t, l) == Row(10 * i, 10 * i + 5, t, l)

\* the tables of at most n rows with texts from ws and labels from ls
Tables(n, ws, ls) ==
    UNION { { [i \in 1..m |-> InRow(i, tx[i], lb[i])] :
                tx \in [1..m -> ws], lb \in [1..m -> ls] } : m \in 0..n }

NoIssues == [ tokens_without_sentences |-> Opt(TRUE, << >>),
              discontinuous_sentences_ids |-> Opt(TRUE, {}) ]

\* mmif_to_all has not returned
NoResult == [kind |-> "none yet"]

\* break_long_line is not called
NoWrap ==
    /\ segment = << >>
    /\ max_line_chars = 0
    /\ split_seg = << >>

\* the caller holds a table and has chosen the arguments
InitWith(tables, mcs, Bs, Ds) ==
    /\ heap \in tables
    /\ caller = [i \in 1..Len(heap) |-> i]
    /\ orig = heap
    /\ max_chars \in mcs
    /\ max_toks_backtrack \in Bs
    /\ min_toks_dangled \in Ds
    /\ pc = "ready"
    /\ cur = caller
    /\ calls = << >>
    /\ done = {}
    /\ stack = << >>
    /\ split_in = << >>
    /\ split_out = << >>
    /\ sts_arr = << >>
    /\ issues = NoIssues
    /\ err = ""
    /\ entry = "direct"
    /\ view = View(<< >>, << >>, << >>, << >>)
    /\ result = NoResult
    /\ NoWrap

\* Short tables of any kind: a plain word, a token that attaches to its
\* predecessor and a token longer than the budget; string, absent and
\* non-string labels; splitting disabled, misconfigured and enabled.
Words == { W(4), << "," >>, W(12) }
InLabels == { PyStr("A"), PyStr("A_x"), PyNone, PyInt("7") }
MaxCharsVals == { 0, 1, 9, 10 }
DEFAULT_BACKTRACK == 3
DEFAULT_DANGLED == 3

Init == InitWith(Tables(MaxToks, Words, InLabels), MaxCharsVals,
                 {DEFAULT_BACKTRACK}, {DEFAULT_DANGLED})

\* Longer tables of well-formed tokens under the smallest valid budget: runs
\* long enough for the forward scan and the backtracking to move the split.
\* The long word exceeds max_chars - 3, so the sanitizer shortens it.
RunWords == { W(8), << "," >>, << "a", "a", "." >> }
RunLabels == { PyStr("A"), PyStr("A_x") }
DangleVals == 1..DEFAULT_DANGLED

InitRuns == InitWith(Tables(MaxRun, RunWords, RunLabels), {MinMaxChars},
                     {DEFAULT_BACKTRACK}, DangleVals)

\* Short tables for the sanitizer: texts of exactly max_chars - 3 characters
\* and one more, under the two smallest valid budgets; string, empty, absent
\* and non-string labels.
SanWords == { W(MinMaxChars - TokMargin), W(MinMaxChars - TokMargin + 1) }
SanLabels == { PyStr("A"), PyStr(""), PyNone, PyInt("7") }
SanMaxChars == { MinMaxChars, MinMaxChars + 1 }

InitSanitize == InitWith(Tables(MaxToks, SanWords, SanLabels), SanMaxChars,
                         {DEFAULT_BACKTRACK}, {DEFAULT_DANGLED})

\* Runs of short tokens under the smallest valid budget, with every backtrack
\* window up to the default: a plain word, a word ending a clause and an
\* abbreviation, so that the scan passes several tokens before the run is full.
BackWords == { << "a", "a" >>, << "a", "." >>, << "M", "r", "." >> }
BacktrackVals == 1..DEFAULT_BACKTRACK
BackDangle == { 1, 2 }

InitBack == InitWith(Tables(MaxRun, BackWords, {PyStr("A")}), {MinMaxChars},
                     BacktrackVals, BackDangle)

\* Views of a few tokens.  Token i has a fixed id and word; it is the target
\* of no alignment, of one alignment to one of three speech frames (two of
\* them with the same start) or to a frame of another type, or of two
\* alignments; it is listed by none, one or both of two sentences.  The
\* frames are either of type "speech" or, all of them, of another type.
TokIds == << "t1", "t2", "t3" >>
ViewWords == << W(8), W(4), << "," >> >>
ViewTokens(m) == [i \in 1..m |-> [id |-> TokIds[i], word |-> ViewWords[i]]]

ViewFrames(ft) ==
    << [id |-> "f1", frameType |-> ft, start |-> 20, end |-> 25],
       [id |-> "f2", frameType |-> ft, start |-> 10, end |-> 15],
       [id |-> "f3", frameType |-> ft, start |-> 10, end |-> 18],
       [id |-> "f4", frameType |-> "non-speech", start |-> 0, end |-> 5] >>
FrameTypes == { "speech", "non-speech" }

AlignChoices ==
    { << >>, << "f1" >>, << "f2" >>, << "f3" >>, << "f4" >>, << "f1", "f2" >>, << "f4", "f1" >> }
ViewAlignments(m, al) ==
    Flatten([i \in 1..m |->
               [k \in 1..Len(al[i]) |-> [source |-> al[i][k], target |-> TokIds[i]]]])

SentIds == << "s1", "s2" >>
GroupChoices == SUBSET { SentIds[k] : k \in 1..Len(SentIds) }
ViewSentences(m, gr) ==
    LET targets(sid) == SelectSeq(SubSeq(TokIds, 1, m), LAMBDA t : \E i \in 1..m : TokIds[i] = t /\ sid \in gr[i])
    IN  Flatten([k \in 1..Len(SentIds) |->
                   IF targets(SentIds[k]) = << >> THEN << >>
                   ELSE << [id |-> SentIds[k], targets |-> targets(SentIds[k])] >>])

\* v is a view of at most n tokens
IsView(v, n) ==
    \E m \in 0..n, ft \in FrameTypes :
        \E al \in [1..m -> AlignChoices], gr \in [1..m -> GroupChoices] :
            v = View(ViewTokens(m), ViewFrames(ft), ViewAlignments(m, al), ViewSentences(m, gr))

\* max_segment_chars: one that leaves a text empty after sanitizing, the
\* largest that split_long_segs rejects, and the smallest it accepts
MmifMaxChars == { TokMargin, MinMaxChars - 1, MinMaxChars }

\* the caller holds a view and calls make_toks_arr or mmif_to_all on it;
\* mmif_to_all passes max_segment_chars and leaves the other arguments of
\* split_long_segs at their defaults
InitMmif ==
    /\ IsView(view, MaxViewToks)
    /\ entry \in { "direct", "mmif_to_all" }
    /\ max_chars \in (IF entry = "direct" THEN { MinMaxChars } ELSE MmifMaxChars)
    /\ max_toks_backtrack = DEFAULT_BACKTRACK
    /\ min_toks_dangled = DEFAULT_DANGLED
    /\ heap = << >>
    /\ caller = << >>
    /\ orig = << >>
    /\ pc = "view"
    /\ cur = << >>
    /\ calls = << >>
    /\ done = {}
    /\ stack = << >>
    /\ split_in = << >>
    /\ split_out = << >>
    /\ sts_arr = << >>
    /\ issues = NoIssues
    /\ err = ""
    /\ result = NoResult
    /\ NoWrap

-----------------------------------------------------------------------------
(* The calling program: each stage is applied to the table `cur` *)

params == << caller, orig, max_chars, max_toks_backtrack, min_toks_dangled >>

\* what belongs to the caller of break_long_line
wrap == << segment, max_line_chars, split_seg >>

\* what belongs to the caller of mmif_to_all, make_toks_arr or break_long_line
outer == << entry, view, result, wrap >>

\* the statement of mmif_to_all that precedes the call of f
MmifBefore(f) ==
    CASE f = "check" -> "extract"
      [] f = "sanitize" -> "check"
      [] f = "split" -> "sanitize"
      [] f = "assemble" -> "split"

\* the program is about to call f: a direct caller checks a table it was given
\* or runs it through sanitize, split, assemble, each optional; mmif_to_all
\* calls the functions in the order of its statements
CanCall(f) ==
    /\ pc = "ready"
    /\ IF entry = "direct"
         THEN CASE f \in {"check", "sanitize"} -> done = {}
                [] f = "split" -> done \subseteq {"sanitize"}
                [] f = "assemble" -> "assemble" \notin done
         ELSE calls[Len(calls)] = MmifBefore(f)

\* an exception leaves every activation and ends the run
Raise(exc) ==
    /\ pc' = "failed"
    /\ err' = exc
    /\ stack' = << >>

\* issues = check_toks_arr(toks_arr)
CheckToks ==
    /\ CanCall("check")
    /\ issues' = check_toks_arr(heap, cur)
    /\ calls' = Append(calls, "check")
    /\ done' = done \cup {"check"}
    /\ pc' = IF entry = "direct" THEN "finished" ELSE "ready"
    /\ UNCHANGED << heap, params, outer, cur, stack, split_in, split_out, sts_arr, err >>

\* toks_arr = sanitize_toks_arr(toks_arr, max_chars)
Sanitize ==
    /\ CanCall("sanitize")
    /\ LET r == sanitize_toks_arr(heap, cur, max_chars)
       IN  /\ heap' = r.heap
           /\ cur' = r.tab
    /\ calls' = Append(calls, "sanitize")
    /\ done' = done \cup {"sanitize"}
    /\ UNCHANGED << params, outer, pc, stack, split_in, split_out, sts_arr, issues, err >>

\* toks_arr_split = split_long_segs(toks_arr, max_chars, B, D): entry
SplitCall ==
    /\ CanCall("split")
    /\ calls' = Append(calls, "split")
    /\ split_in' = cur
    /\ LET r == SplitEnter(heap, cur, max_chars)
       IN  /\ heap' = r.heap
           /\ CASE r.kind = "return" ->
                     /\ split_out' = r.tab /\ cur' = r.tab
                     /\ done' = done \cup {"split"}
                     /\ UNCHANGED << pc, stack, err >>
                [] r.kind = "raise" ->
                     /\ Raise(r.exc)
                     /\ UNCHANGED << cur, done, split_out >>
                [] OTHER ->
                     /\ stack' = << r.frame >>
                     /\ pc' = "splitting"
                     /\ UNCHANGED << cur, done, split_out, err >>
    /\ UNCHANGED << params, outer, sts_arr, issues >>

\* one pass of `for st_id in st_ids` over a sentence that is short enough
SplitFits ==
    /\ pc = "splitting"
    /\ Top.k <= Len(Top.st_ids)
    /\ ~TooLong(TopTexts, max_chars)
    /\ stack' = [stack EXCEPT ![Len(stack)].k = @ + 1]
    /\ UNCHANGED << heap, params, outer, pc, cur, calls, done, split_in, split_out, sts_arr, issues, err >>

\* one pass over a sentence that is too long: choose the split index, re-label
\* the tokens after it, and call split_long_segs on the sentence array
SplitCut ==
    /\ pc = "splitting"
    /\ Top.k <= Len(Top.st_ids)
    /\ TooLong(TopTexts, max_chars)
    /\ LET ix == SplitIndex(TopTexts, max_chars, max_toks_backtrack, min_toks_dangled)
           h1 == Relabel(heap, TopSt, ix.lasti + 2)
           r  == SplitEnter(h1, TopSt, max_chars)
       IN  IF ix.raises
             THEN /\ Raise("IndexError")
                  /\ UNCHANGED heap
           ELSE IF Len(stack) >= RecursionLimit
             THEN /\ Raise("RecursionError")
                  /\ heap' = h1
           ELSE IF r.kind = "raise"
             THEN /\ Raise(r.exc)
                  /\ heap' = r.heap
           ELSE /\ heap' = r.heap
                /\ stack' = Append([stack EXCEPT ![Len(stack)].sttoks_arr = TopSt,
                                                 ![Len(stack)].lasti = ix.lasti],
                                   r.frame)
                /\ UNCHANGED << pc, err >>
    /\ UNCHANGED << params, outer, cur, calls, done, split_in, split_out, sts_arr, issues >>

\* `return toks_arr`: to the calling program, or to the pending pass of the
\* calling activation, which copies the labels back and moves on
SplitReturn ==
    /\ pc = "splitting"
    /\ Top.k > Len(Top.st_ids)
    /\ IF Len(stack) = 1
         THEN /\ split_out' = Top.toks_arr /\ cur' = Top.toks_arr
              /\ done' = done \cup {"split"}
              /\ pc' = "ready"
              /\ stack' = << >>
              /\ UNCHANGED heap
         ELSE LET g == stack[Len(stack) - 1]
              IN  /\ heap' = CopyLabelsBack(heap, g.sttoks_arr, Top.toks_arr, 1)
                  /\ stack' = [SubSeq(stack, 1, Len(stack) - 1)
                                 EXCEPT ![Len(stack) - 1].k = @ + 1]
                  /\ UNCHANGED << pc, cur, done, split_out >>
    /\ UNCHANGED << params, outer, calls, split_in, sts_arr, issues, err >>

\* sts_arr = make_sts_arr(toks_arr)
MakeSts ==
    /\ CanCall("assemble")
    /\ calls' = Append(calls, "assemble")
    /\ LET r == make_sts_arr(heap, cur)
       IN  IF r.raises
             THEN /\ Raise("IndexError")
                  /\ UNCHANGED << sts_arr, done >>
             ELSE /\ sts_arr' = r.sts
                  /\ done' = done \cup {"assemble"}
                  /\ pc' = "finished"
                  /\ UNCHANGED << stack, err >>
    /\ UNCHANGED << heap, params, outer, cur, split_in, split_out, issues >>

Next ==
    \/ CheckToks
    \/ Sanitize
    \/ SplitCall
    \/ SplitFits
    \/ SplitCut
    \/ SplitReturn
    \/ MakeSts

Spec == Init /\ [][Next]_vars

SpecRuns == InitRuns /\ [][Next]_vars

SpecSanitize == InitSanitize /\ [][Next]_vars
SpecBack == InitBack /\ [][Next]_vars

-----------------------------------------------------------------------------
(* make_toks_arr called on a view, and mmif_to_all *)

\* toks_arr = make_toks_arr(asr_view) returned rows: the program holds the table
BindTable(rows) ==
    /\ heap' = rows
    /\ caller' = [i \in 1..Len(rows) |-> i]
    /\ cur' = [i \in 1..Len(rows) |-> i]
    /\ orig' = rows
    /\ done' = {"extract"}

\* toks_arr = make_toks_arr(asr_view), called by the caller itself
MakeToks ==
    /\ pc = "view" /\ entry = "direct"
    /\ calls' = Append(calls, "extract")
    /\ LET r == make_toks_arr(view)
       IN  IF r.raises
             THEN /\ Raise(r.exc)
                  /\ UNCHANGED << heap, caller, orig, cur, done >>
             ELSE /\ BindTable(r.rows)
                  /\ pc' = "finished"
                  /\ UNCHANGED << stack, err >>
    /\ UNCHANGED << max_chars, max_toks_backtrack, min_toks_dangled, outer,
                    split_in, split_out, sts_arr, issues >>

\* variant: no except clause around make_toks_arr
ExtractCaught_Never(exc) == FALSE

\* `except KeyError` around the call of make_toks_arr
ExtractCaught(exc) == exc = "KeyError"

\* the first statements of mmif_to_all, up to make_toks_arr in its try
\* statement: `return None` when a KeyError is caught
MmifExtract ==
    /\ pc = "view" /\ entry = "mmif_to_all"
    /\ calls' = Append(calls, "extract")
    /\ LET r == make_toks_arr(view)
       IN  IF r.raises
             THEN IF ExtractCaught(r.exc)
                    THEN /\ result' = [kind |-> "None"]
                         /\ pc' = "returned"
                         /\ UNCHANGED << heap, caller, orig, cur, done, stack, err >>
                    ELSE /\ Raise(r.exc)
                         /\ UNCHANGED << heap, caller, orig, cur, done, result >>
             ELSE /\ BindTable(r.rows)
                  /\ pc' = "ready"
                  /\ UNCHANGED << stack, err, result >>
    /\ UNCHANGED << max_chars, max_toks_backtrack, min_toks_dangled, entry, view, wrap,
                    split_in, split_out, sts_arr, issues >>

\* `except Exception` around the call of split_long_segs
SplitCaught(exc) == TRUE

\* the except clause: toks_arr_split = copy.deepcopy(toks_arr)
MmifSplitFallback ==
    /\ pc = "failed" /\ entry = "mmif_to_all"
    /\ calls[Len(calls)] = "split"
    /\ SplitCaught(err)
    /\ LET cp == DeepCopy(heap, cur)
       IN  /\ heap' = cp.heap
           /\ cur' = cp.tab
    /\ err' = ""
    /\ pc' = "ready"
    /\ done' = done \cup {"fallback"}
    /\ UNCHANGED << params, outer, calls, stack, split_in, split_out, sts_arr, issues >>

\* the dictionary mmif_to_all returns: the notes taken from the issues, and
\* the segments its transcripts are written from
Tdict(is, sts) ==
    [ kind |-> "dict",
      infos |-> IF is.tokens_without_sentences.none THEN << >>
                ELSE << << "tokens_without_sentences", is.tokens_without_sentences.val >> >>,
      problems |-> IF is.discontinuous_sentences_ids.none THEN << >>
                   ELSE << << "discontinuous_sentences_ids", is.discontinuous_sentences_ids.val >> >>,
      sts_arr |-> sts ]

\* `return tdict`
MmifReturn ==
    /\ pc = "finished" /\ entry = "mmif_to_all"
    /\ result' = Tdict(issues, sts_arr)
    /\ pc' = "returned"
    /\ UNCHANGED << heap, params, entry, view, wrap, cur, calls, done, stack,
                    split_in, split_out, sts_arr, issues, err >>

NextMmif ==
    \/ MakeToks
    \/ MmifExtract
    \/ CheckToks
    \/ Sanitize
    \/ SplitCall
    \/ SplitFits
    \/ SplitCut
    \/ SplitReturn
    \/ MmifSplitFallback
    \/ MakeSts
    \/ MmifReturn

SpecMmif == InitMmif /\ [][NextMmif]_vars

-----------------------------------------------------------------------------
(* break_long_line called on a segment text *)

\* the texts of at most n characters over letters and spaces, without line breaks
SegChars == { "a", "b", " " }
IsSegment(s, n) == \E m \in 0..n : s \in [1..m -> SegChars]

InitWrap ==
    /\ IsSegment(segment, MaxSeg)
    /\ max_line_chars \in 1..MaxLine
    /\ split_seg = << >>
    /\ entry = "direct"
    /\ view = View(<< >>, << >>, << >>, << >>)
    /\ result = NoResult
    /\ heap = << >>
    /\ caller = << >>
    /\ orig = << >>
    /\ max_chars = 0
    /\ max_toks_backtrack = DEFAULT_BACKTRACK
    /\ min_toks_dangled = DEFAULT_DANGLED
    /\ pc = "segment"
    /\ cur = << >>
    /\ calls = << >>
    /\ done = {}
    /\ stack = << >>
    /\ split_in = << >>
    /\ split_out = << >>
    /\ sts_arr = << >>
    /\ issues = NoIssues
    /\ err = ""

\* split_seg = break_long_line(segment, max_line_chars)
BreakLongLine ==
    /\ pc = "segment"
    /\ split_seg' = break_long_line(segment, max_line_chars)
    /\ calls' = Append(calls, "wrap")
    /\ done' = {"wrap"}
    /\ pc' = "finished"
    /\ UNCHANGED << heap, params, entry, view, result, segment, max_line_chars,
                    cur, stack, split_in, split_out, sts_arr, issues, err >>

NextWrap == BreakLongLine

SpecWrap == InitWrap /\ [][NextWrap]_vars

-----------------------------------------------------------------------------
(* Vocabulary of the properties *)

Addrs(tab) == { tab[i] : i \in 1..Len(tab) }
Last(sq) == sq[Len(sq)]

Called(f) == InSeq(f, calls)
SanitizedFirst == calls # << >> /\ calls[1] = "sanitize"
PipelineDone == calls = << "sanitize", "split", "assemble" >> /\ pc = "finished"
SplitReturned == "split" \in done
SplitRaised == pc = "failed" /\ calls # << >> /\ Last(calls) = "split"
SplitEnabled == max_chars >= 10

RECURSIVE StripSpaces(_)
StripSpaces(t) ==
    IF t = << >> THEN << >>
    ELSE (IF Head(t) = " " THEN << >> ELSE << Head(t) >>) \o StripSpaces(Tail(t))

\* the text the sanitizer is specified to leave for an input text
Truncated(t) == IF Len(t) > max_chars - 3 THEN SubSeq(t, 1, max_chars - 3) ELSE t

\* l followed by k copies of the suffix
RECURSIVE WithSuffixes(_, _)
WithSuffixes(l, k) == IF k = 0 THEN l ELSE WithSuffixes(l, k - 1) \o "_x"

\* the 1-based position in split_out of a row object
PosOf(a) == CHOOSE i \in 1..Len(split_out) : split_out[i] = a

\* the length of a run's text under the spacing rule: a single space between
\* tokens, none before a token starting with one of . , - /
JoinedLen(texts) ==
    LET RECURSIVE Sum(_)
        Sum(i) == IF i = 0 THEN 0
                  ELSE Sum(i - 1) + Len(texts[i])
                       + (IF i > 1 /\ texts[i][1] \notin {".", ",", "-", "/"} THEN 1 ELSE 0)
    IN  Sum(Len(texts))

\* the texts of the rows of a table that carry label l, in table order
TextsOf(tab, l) ==
    LET RECURSIVE Sel(_)
        Sel(i) == IF i > Len(tab) THEN << >>
                  ELSE (IF heap[tab[i]].label = l THEN << heap[tab[i]].text >> ELSE << >>)
                       \o Sel(i + 1)
    IN  Sel(1)

LabelSet(tab) == { heap[tab[i]].label : i \in 1..Len(tab) }

-----------------------------------------------------------------------------
(* C1 - Partition invariant.  For a non-empty table and max_chars >= 10,     *)
(* sanitize -> split -> assemble never raises, and the tokens of the         *)
(* segments, taken segment by segment in output order, are exactly the       *)
(* input tokens in input order: the same rows, none lost, duplicated or      *)
(* reordered, and the segment texts are made of exactly their characters.    *)
C1_Partition ==
    (SanitizedFirst /\ SplitEnabled /\ Len(caller) > 0) =>
        /\ pc # "failed"
        /\ PipelineDone =>
             LET segtoks == Flatten([i \in 1..Len(sts_arr) |-> sts_arr[i].toks])
             IN  /\ segtoks = split_out
                 /\ Len(segtoks) = Len(caller)
                 /\ \A i \in 1..Len(segtoks) :
                        /\ heap[segtoks[i]].start = orig[i].start
                        /\ heap[segtoks[i]].end = orig[i].end
                        /\ heap[segtoks[i]].text = Truncated(orig[i].text)
                 /\ StripSpaces(Flatten([i \in 1..Len(sts_arr) |-> sts_arr[i].text]))
                      = Flatten([i \in 1..Len(orig) |-> Truncated(orig[i].text)])
                 /\ \A i \in 1..Len(sts_arr) : sts_arr[i].toks # << >>

\* the pipeline has run on a table of several rows, a run was split twice and
\* a long token was shortened
C1_Witness ==
    /\ PipelineDone /\ SplitEnabled
    /\ Len(caller) >= 3
    /\ Len(sts_arr) >= 3
    /\ \E i \in 1..Len(caller) : Len(orig[i].text) > max_chars - 3
    /\ \E i \in 1..Len(split_out) :
          heap[split_out[i]].label.s = WithSuffixes(orig[i].label.s, 2)

-----------------------------------------------------------------------------
(* C2 - Length bound.  For any labels, contiguous or not, and max_chars >= 10, *)
(* every segment of more than one token that sanitize -> split -> assemble     *)
(* produces has a text of at most max_chars characters.                        *)
C2_LengthBound ==
    (PipelineDone /\ SplitEnabled) =>
        \A i \in 1..Len(sts_arr) :
            Len(sts_arr[i].toks) > 1 => Len(sts_arr[i].text) <= max_chars

-----------------------------------------------------------------------------
(* C3 - Unsplittable single token.  split_long_segs with max_chars >= 10 on a *)
(* table with a run of one token whose text is longer than max_chars returns  *)
(* normally, leaving that token unshortened and alone under its label.        *)
OversizedSingle(tab) ==
    { i \in 1..Len(tab) :
        /\ Len(heap[tab[i]].text) > max_chars
        /\ \A j \in 1..Len(tab) : heap[tab[j]].label = heap[tab[i]].label => j = i }

C3_SingleTokenAccepted ==
    ( /\ calls = << "split" >> /\ pc # "splitting"
      /\ SplitEnabled
      /\ \A i \in 1..Len(caller) : IsStr(orig[i].label)
      /\ OversizedSingle(caller) # {} ) =>
        /\ pc = "ready" /\ err = "" /\ SplitReturned
        /\ \A i \in OversizedSingle(caller) :
              /\ heap[split_out[i]].text = orig[i].text
              /\ \A j \in 1..Len(split_out) :
                    heap[split_out[j]].label = heap[split_out[i]].label => j = i

-----------------------------------------------------------------------------
(* C4 - Only subdivision, never merging.  Every segment produced by          *)
(* sanitize -> split -> assemble holds tokens of one input label only: two   *)
(* adjacent tokens with different input labels never share a segment.        *)
C4_NoMerging ==
    PipelineDone =>
        \A i \in 1..Len(sts_arr) :
            \A a, b \in Addrs(sts_arr[i].toks) :
                orig[PosOf(a)].label = orig[PosOf(b)].label

-----------------------------------------------------------------------------
(* C5 - Disabled-split passthrough.  For max_chars < 1 and any table, also   *)
(* one with absent or non-string labels, split_long_segs returns without     *)
(* error a table equal to its argument, made of fresh row objects.           *)
C5_DisabledPassthrough ==
    (Called("split") /\ max_chars < 1) =>
        /\ SplitReturned /\ ~SplitRaised
        /\ Rows(heap, split_out) = Rows(heap, split_in)
        /\ Addrs(split_out) \cap Addrs(split_in) = {}
        /\ ~SanitizedFirst => Rows(heap, split_out) = orig

\* splitting was disabled for a table with an absent and a non-string label
C5_Witness ==
    /\ calls = << "split" >> /\ max_chars < 1 /\ SplitReturned
    /\ Len(split_out) >= 2
    /\ \E i, j \in 1..Len(caller) : orig[i].label = PyNone /\ orig[j].label.kind = "int"

-----------------------------------------------------------------------------
(* C6 - Idempotence on compliant input.  If max_chars >= 10 and the tokens   *)
(* of every label join, under the spacing rule, to at most max_chars         *)
(* characters, split_long_segs returns and the labels of its result equal    *)
(* the labels of its argument, row by row.                                   *)
Compliant(tab) == \A l \in LabelSet(tab) : JoinedLen(TextsOf(tab, l)) <= max_chars

C6_Idempotent ==
    (Called("split") /\ pc # "splitting" /\ SplitEnabled /\ Compliant(split_in)) =>
        /\ SplitReturned /\ ~SplitRaised
        /\ Labels(heap, split_out) = Labels(heap, split_in)

\* a compliant table of two labels, one of them exactly max_chars long
C6_Witness ==
    /\ SplitReturned /\ SplitEnabled /\ Compliant(split_in)
    /\ Cardinality(LabelSet(split_in)) = 2
    /\ \E l \in LabelSet(split_in) :
          /\ JoinedLen(TextsOf(split_in, l)) = max_chars
          /\ Len(TextsOf(split_in, l)) >= 2

-----------------------------------------------------------------------------
(* C7 - Invalid configuration.  For max_chars in 1..9 and any table,         *)
(* split_long_segs fails with an error and returns no table.                 *)
C7_InvalidConfig ==
    (Called("split") /\ max_chars \in 1..9) =>
        /\ SplitRaised /\ err = "AssertionError"
        /\ ~SplitReturned /\ split_out = << >> /\ stack = << >>

\* the call was rejected for a well-labelled table that has rows
C7_Witness ==
    /\ SplitRaised /\ max_chars = 9 /\ Len(split_in) >= 2
    /\ \A i \in 1..Len(split_in) : IsStr(heap[split_in[i]].label)

-----------------------------------------------------------------------------
(* C8 - Invalid input.  For max_chars >= 10, if a token of the argument has  *)
(* an absent or non-string label, split_long_segs fails with an error        *)
(* before any token is re-labelled, and returns no table.                    *)
C8_InvalidInput ==
    ( /\ Called("split") /\ SplitEnabled
      /\ \E i \in 1..Len(split_in) : ~IsStr(heap[split_in[i]].label) ) =>
        /\ SplitRaised /\ err = "AssertionError"
        /\ ~SplitReturned /\ split_out = << >> /\ stack = << >>
        /\ \A a \in DOMAIN heap : \E i \in 1..Len(orig) : heap[a] = orig[i]

\* rejected: a too-long run with a string label precedes a token whose label
\* is not a string
C8_Witness ==
    /\ SplitRaised /\ SplitEnabled
    /\ Len(split_in) >= 2
    /\ IsStr(orig[1].label) /\ Len(orig[1].text) > max_chars
    /\ \E i \in 2..Len(orig) : orig[i].label.kind = "int"
    /\ \A i \in 1..Len(orig) : orig[i].label # PyNone

-----------------------------------------------------------------------------
(* C9 - Non-mutation.  No step of sanitize_toks_arr, of split_long_segs and  *)
(* its recursive calls, or of check_toks_arr, whether it returns or raises,  *)
(* changes a row of the table it was called on or of the caller's table.     *)
C9_NonMutation ==
    [][ /\ \A a \in Addrs(caller) \cup Addrs(cur) \cup Addrs(split_in) : heap'[a] = heap[a]
        /\ Rows(heap', caller) = orig
        /\ caller' = caller ]_vars

\* a split that re-labelled rows in a recursive call has returned
C9_Witness ==
    /\ SplitReturned /\ SplitEnabled
    /\ \E i \in 1..Len(split_out) :
          heap[split_out[i]].label.s = WithSuffixes(heap[split_in[i]].label.s, 2)
    /\ Rows(heap, caller) = orig

-----------------------------------------------------------------------------
(* C10 - Splitter frame.  For max_chars >= 10 the table split_long_segs      *)
(* returns has the rows of its argument, in the same order, with start_ms,   *)
(* end_ms and text unchanged; each label is the argument's label followed by *)
(* zero or more copies of "_x".                                              *)
C10_SplitterFrame ==
    (SplitReturned /\ SplitEnabled) =>
        /\ Len(split_out) = Len(split_in)
        /\ \A i \in 1..Len(split_out) :
              LET o == heap[split_out[i]]
                  a == heap[split_in[i]]
              IN  /\ o.start = a.start /\ o.end = a.end /\ o.text = a.text
                  /\ IsStr(o.label)
                  /\ \E k \in 0..Len(split_in) : o.label.s = WithSuffixes(a.label.s, k)

\* a returned table with an unchanged label, a label suffixed once and a
\* label suffixed twice
C10_Witness ==
    /\ SplitReturned /\ SplitEnabled
    /\ \A k \in 0..2 : \E i \in 1..Len(split_out) :
          heap[split_out[i]].label.s = WithSuffixes(heap[split_in[i]].label.s, k)

-----------------------------------------------------------------------------
(* C11 - Sanitizer postcondition.  For max_chars >= 10 sanitize_toks_arr     *)
(* returns a table with as many rows as its argument, in the same order:     *)
(* each text is the input text cut to max_chars - 3 characters (unchanged    *)
(* when not longer), an absent, empty or non-string label has become the     *)
(* placeholder "no_sentence", and every other label and every start and end  *)
(* is unchanged.                                                             *)
C11_Sanitized ==
    (calls = << "sanitize" >> /\ max_chars >= 10) =>
        /\ pc = "ready" /\ err = ""
        /\ Len(cur) = Len(caller)
        /\ \A i \in 1..Len(cur) :
              LET o == heap[cur[i]]
                  a == orig[i]
              IN  /\ o.start = a.start /\ o.end = a.end
                  /\ o.text = Truncated(a.text)
                  /\ o.label = IF a.label = PyNone \/ a.label = PyStr("") \/ a.label.kind # "str"
                                 THEN PyStr("no_sentence")
                                 ELSE a.label

\* sanitized: a table with an empty, a non-string and a proper label, in
\* which one text was cut and one of exactly max_chars - 3 characters was kept
C11_Witness ==
    /\ calls = << "sanitize" >> /\ max_chars >= 10
    /\ Len(caller) = 3
    /\ { orig[i].label : i \in 1..3 } = { PyStr(""), PyInt("7"), PyStr("A") }
    /\ \E i, j \in 1..3 :
          /\ Len(orig[i].text) > max_chars - 3 /\ Len(heap[cur[i]].text) = max_chars - 3
          /\ Len(orig[j].text) = max_chars - 3 /\ heap[cur[j]].text = orig[j].text

-----------------------------------------------------------------------------
(* C12 - Discontinuity detection.  check_toks_arr reports a label L exactly  *)
(* when the table has a token labelled L, later a token under a different    *)
(* label, and later again a token labelled L; the report holds each such     *)
(* label once and is absent when there is none.                              *)
Discontinuous(ls) ==
    { ls[i] : i \in { i \in 1..Len(ls) :
                \E j, k \in 1..Len(ls) :
                    i < j /\ j < k /\ ls[j] # ls[i] /\ ls[k] = ls[i] } }

C12_Discontinuity ==
    (calls = << "check" >> /\ \A i \in 1..Len(caller) : IsStr(orig[i].label)) =>
        LET d == Discontinuous(Labels(heap, caller))
        IN  issues.discontinuous_sentences_ids = Opt(d = {}, d)

-----------------------------------------------------------------------------
(* C13 - Unlabeled-token report.  check_toks_arr lists the text of every     *)
(* token whose label is absent (None), once per token and in table order;    *)
(* the list is absent when every token has a label.                          *)
Unlabeled(tab) ==
    LET RECURSIVE Sel(_)
        Sel(i) == IF i > Len(tab) THEN << >>
                  ELSE (IF heap[tab[i]].label = PyNone THEN << heap[tab[i]].text >> ELSE << >>)
                       \o Sel(i + 1)
    IN  Sel(1)

-----------------------------------------------------------------------------
(* C14 - Assembler contract.  For a non-empty table make_sts_arr returns one *)
(* segment per maximal run of adjacent rows with equal labels, in table      *)
(* order: start of the run's first row, end of its last row, and the run's   *)
(* texts joined by single spaces, with no space before a text that starts    *)
(* with one of . , - /; the segment starts are non-decreasing.               *)
RunStarts(tab) ==
    { i \in 1..Len(tab) : i = 1 \/ heap[tab[i]].label # heap[tab[i - 1]].label }

\* the first row of the k-th run
RunStart(tab, k) ==
    CHOOSE i \in RunStarts(tab) : Cardinality({ j \in RunStarts(tab) : j < i }) = k - 1

\* the last row of the k-th run
RunEnd(tab, k) ==
    IF k = Cardinality(RunStarts(tab)) THEN Len(tab) ELSE RunStart(tab, k + 1) - 1

\* texts joined under the spacing rule
Joined(texts) ==
    Flatten([j \in 1..Len(texts) |->
               (IF j > 1 /\ texts[j][1] \notin {".", ",", "-", "/"} THEN << " " >> ELSE << >>)
               \o texts[j]])

C14_Assembler ==
    (calls = << "assemble" >> /\ Len(caller) > 0) =>
        /\ pc = "finished" /\ err = ""
        /\ Len(sts_arr) = Cardinality(RunStarts(caller))
        /\ \A k \in 1..Len(sts_arr) :
              LET a == RunStart(caller, k)
                  b == RunEnd(caller, k)
              IN  /\ sts_arr[k].start = heap[caller[a]].start
                  /\ sts_arr[k].end = heap[caller[b]].end
                  /\ sts_arr[k].text = Joined(Texts(heap, SubSeq(caller, a, b)))
        /\ \A k \in 1..(Len(sts_arr) - 1) : sts_arr[k].start <= sts_arr[k + 1].start

\* assembled: a label that comes back after another one gives two segments,
\* and a run of three tokens has a token that takes no space before it
C14_Witness ==
    /\ calls = << "assemble" >> /\ pc = "finished"
    /\ Len(caller) = 4 /\ Len(sts_arr) = 2
    /\ \E k \in 1..2 : \E i \in 2..3 :
          /\ RunEnd(caller, k) - RunStart(caller, k) = 2
          /\ orig[RunStart(caller, k) + i - 1].text = << "," >>
          /\ Len(orig[RunStart(caller, k)].text) > 1

-----------------------------------------------------------------------------
(* C15 - Empty input.  make_sts_arr applied to an empty table returns an     *)
(* empty segment list and raises no error.                                   *)
C15_EmptyInput ==
    (calls = << "assemble" >> /\ caller = << >>) =>
        /\ pc = "finished" /\ err = ""
        /\ "assemble" \in done /\ sts_arr = << >>

-----------------------------------------------------------------------------
(* Vocabulary of the properties about views *)

\* the ids of the frames of a view whose type is "speech"
SpeechIds(v) ==
    { v.timeframes[k].id : k \in { k \in 1..Len(v.timeframes) : v.timeframes[k].frameType = "speech" } }

\* the alignments that link token i to a speech frame
SpeechLinks(v, i) ==
    { k \in 1..Len(v.alignments) :
        v.alignments[k].target = v.tokens[i].id /\ v.alignments[k].source \in SpeechIds(v) }

\* the sentences that list token i
Groups(v, i) ==
    { k \in 1..Len(v.sentences) :
        \E j \in 1..Len(v.sentences[k].targets) : v.sentences[k].targets[j] = v.tokens[i].id }

MultiAligned(v) == \E i \in 1..Len(v.tokens) : Cardinality(SpeechLinks(v, i)) > 1
MultiGrouped(v) == \E i \in 1..Len(v.tokens) : Cardinality(Groups(v, i)) > 1
Unaligned(v) == { i \in 1..Len(v.tokens) : SpeechLinks(v, i) = {} }

\* make_toks_arr has been called on the view by the caller itself
Extracted == entry = "direct" /\ calls = << "extract" >>
ExtractFailed == pc = "failed" /\ err = "KeyError" /\ cur = << >> /\ heap = << >>

-----------------------------------------------------------------------------
(* C16 - Structural conflict.  make_toks_arr fails with an error and returns *)
(* no table whenever a token of the view is the target of more than one      *)
(* alignment to a speech time span or is listed by more than one sentence.   *)
C16_StructuralConflict ==
    (Extracted /\ (MultiAligned(view) \/ MultiGrouped(view))) => ExtractFailed

\* rejected: the only defect of the view is a token aligned to two speech
\* frames, after another token that is aligned once
C16_Witness ==
    /\ Extracted /\ ExtractFailed
    /\ Len(view.tokens) = 2
    /\ Cardinality(SpeechLinks(view, 1)) = 1 /\ Cardinality(SpeechLinks(view, 2)) = 2
    /\ ~MultiGrouped(view)

-----------------------------------------------------------------------------
(* C17 - Unaligned tokens.  As claimed: when a token of a view without       *)
(* structural conflicts is linked to no speech time span, make_toks_arr      *)
(* returns a table with a row for every other token and none for that one.   *)
C17_UnalignedOmitted ==
    ( /\ Extracted /\ Unaligned(view) # {}
      /\ ~MultiAligned(view) /\ ~MultiGrouped(view) ) =>
        /\ pc = "finished" /\ err = ""
        /\ Len(cur) = Len(view.tokens) - Cardinality(Unaligned(view))

\* C17 as amended: when a token of the view is linked to no speech time span,
\* make_toks_arr fails with KeyError and returns no table; so does a view
\* that has tokens but no speech time spans.
C17_UnalignedRejected ==
    (Extracted /\ Unaligned(view) # {}) => ExtractFailed

\* rejected: a view without conflicts whose first token is aligned to a
\* speech frame and whose second token is aligned to a frame of another type
C17_Witness ==
    /\ Extracted /\ ExtractFailed
    /\ Len(view.tokens) = 2 /\ Unaligned(view) = {2}
    /\ \E k \in 1..Len(view.alignments) : view.alignments[k].target = view.tokens[2].id
    /\ ~MultiAligned(view) /\ ~MultiGrouped(view)

-----------------------------------------------------------------------------
(* C18 - Extractor output.  For a view without structural conflicts in which *)
(* every token is aligned to one speech time span, make_toks_arr returns one *)
(* row (start, end, word, label) per token, sorted ascending by start with   *)
(* ties in token order; the label is the id of the token's sentence, absent  *)
(* for a token that no sentence lists.                                       *)
FrameOf(v, i) ==
    LET a == v.alignments[CHOOSE k \in SpeechLinks(v, i) : TRUE]
    IN  v.timeframes[CHOOSE k \in 1..Len(v.timeframes) : v.timeframes[k].id = a.source]

LabelOf(v, i) ==
    IF Groups(v, i) = {} THEN PyNone
    ELSE PyStr(v.sentences[CHOOSE k \in Groups(v, i) : TRUE].id)

\* the position of token i's row in a table sorted by start, ties in token order
RowPos(v, i) ==
    1 + Cardinality({ j \in 1..Len(v.tokens) :
                        \/ FrameOf(v, j).start < FrameOf(v, i).start
                        \/ FrameOf(v, j).start = FrameOf(v, i).start /\ j < i })

C18_ExtractorOutput ==
    ( /\ Extracted /\ Unaligned(view) = {}
      /\ ~MultiAligned(view) /\ ~MultiGrouped(view) ) =>
        /\ pc = "finished" /\ err = ""
        /\ Len(cur) = Len(view.tokens)
        /\ \A i \in 1..Len(view.tokens) :
              heap[cur[RowPos(view, i)]]
                = Row(FrameOf(view, i).start, FrameOf(view, i).end,
                      view.tokens[i].word, LabelOf(view, i))
        /\ \A i \in 1..(Len(cur) - 1) : heap[cur[i]].start <= heap[cur[i + 1]].start

\* extracted: two tokens aligned to different frames of the same start, in a
\* view without sentences
C18_Witness ==
    /\ Extracted /\ pc = "finished"
    /\ Len(cur) = 2 /\ view.sentences = << >>
    /\ heap[cur[1]].start = heap[cur[2]].start /\ heap[cur[1]].end # heap[cur[2]].end
    /\ heap[cur[1]].label = PyNone

-----------------------------------------------------------------------------
(* C19 - Extraction failure yields no result.  Whenever make_toks_arr fails  *)
(* inside mmif_to_all, mmif_to_all returns None: it builds no dictionary,    *)
(* calls nothing else and passes no error to its caller.                     *)
C19_ExtractionFailure ==
    (entry = "mmif_to_all" /\ Called("extract") /\ make_toks_arr(view).raises) =>
        /\ pc = "returned" /\ err = ""
        /\ result = [kind |-> "None"]
        /\ calls = << "extract" >> /\ sts_arr = << >>

\* mmif_to_all has returned None for a view with a doubly aligned token
C19_Witness ==
    /\ entry = "mmif_to_all" /\ pc = "returned" /\ result.kind = "None"
    /\ Len(view.tokens) = 2 /\ MultiAligned(view)

-----------------------------------------------------------------------------
(* C20 - Splitting failure falls back to un-split groups.  Whenever          *)
(* split_long_segs raises inside mmif_to_all on a table that has rows, no    *)
(* error reaches the caller and mmif_to_all returns a dictionary whose       *)
(* segments are the maximal same-label runs of the sanitized table.          *)
C20_SplitFallback ==
    (entry = "mmif_to_all" /\ "fallback" \in done /\ Len(split_in) > 0) =>
        /\ pc # "failed" /\ err = ""
        /\ pc = "returned" =>
              /\ result.kind = "dict"
              /\ Len(result.sts_arr) = Cardinality(RunStarts(split_in))
              /\ \A k \in 1..Len(result.sts_arr) :
                    LET a == RunStart(split_in, k)
                        b == RunEnd(split_in, k)
                    IN  /\ result.sts_arr[k].start = heap[split_in[a]].start
                        /\ result.sts_arr[k].end = heap[split_in[b]].end
                        /\ result.sts_arr[k].text = Joined(Texts(heap, SubSeq(split_in, a, b)))

-----------------------------------------------------------------------------
(* Vocabulary of the properties about line wrapping *)

\* the pieces of s between the occurrences of the character sep
PiecesOf(s, sep) ==
    LET cuts == { i \in 1..Len(s) : s[i] = sep }
        RECURSIVE From(_)
        From(i) ==
            IF \E c \in cuts : c >= i
              THEN LET c == CHOOSE c \in cuts : c >= i /\ \A d \in cuts : d >= i => c <= d
                   IN  << SubSeq(s, i, c - 1) >> \o From(c + 1)
              ELSE << SubSeq(s, i, Len(s)) >>
    IN  From(1)

Wrapped == calls = << "wrap" >> /\ pc = "finished"
SegWords == PiecesOf(segment, " ")
OutLines == PiecesOf(split_seg, NEWLINE)

-----------------------------------------------------------------------------
(* C21 - Line-wrap bound.  For a text without line breaks and                *)
(* max_line_chars >= 1, every line of the text break_long_line returns has   *)
(* at most max_line_chars characters, and a word longer than that appears    *)
(* as a line made of its first max_line_chars characters.                    *)
C21_LineBound ==
    Wrapped =>
        /\ \A k \in 1..Len(OutLines) : Len(OutLines[k]) <= max_line_chars
        /\ \A j \in 1..Len(SegWords) :
              Len(SegWords[j]) > max_line_chars =>
                  \E k \in 1..Len(OutLines) :
                      OutLines[k] = SubSeq(SegWords[j], 1, max_line_chars)

\* wrapped: a word that fits followed by a word longer than the budget,
\* each on a line of its own
C21_Witness ==
    /\ Wrapped /\ Len(SegWords) = 2 /\ max_line_chars >= 2
    /\ Len(SegWords[1]) \in 1..max_line_chars
    /\ Len(SegWords[2]) > max_line_chars
    /\ Len(OutLines) >= 2
    /\ OutLines[1] = SegWords[1]
    /\ OutLines[2] = SubSeq(SegWords[2], 1, max_line_chars)

-----------------------------------------------------------------------------
(* C22 - The line wrapper preserves the text.  When no word is longer than   *)
(* max_line_chars, replacing every line break of break_long_line's result by *)
(* a space gives back the input text exactly.                                *)
C22_TextPreserved ==
    (Wrapped /\ \A j \in 1..Len(SegWords) : Len(SegWords[j]) <= max_line_chars) =>
        [i \in 1..Len(split_seg) |-> IF split_seg[i] = NEWLINE THEN " " ELSE split_seg[i]]
            = segment

-----------------------------------------------------------------------------
(* C29 - Fitting text is not wrapped.  For a text without line breaks of at  *)
(* most max_line_chars characters, break_long_line returns the text          *)
(* unchanged.                                                                *)
C29_FittingUnchanged ==
    (Wrapped /\ Len(segment) <= max_line_chars) => split_seg = segment

-----------------------------------------------------------------------------
(* C23 - Termination.  For a table whose labels are strings and              *)
(* max_chars >= 10, split_long_segs terminates: it never exhausts the        *)
(* interpreter's stack, and the number of nested recursive calls made for a  *)
(* run is at most the number of tokens of that run.                          *)
C23_Termination ==
    ( /\ Called("split") /\ Last(calls) = "split"
      /\ SplitEnabled
      /\ LabelsOk(Labels(heap, split_in)) ) =>
        /\ err # "RecursionError"
        /\ (pc = "splitting" /\ Len(stack) > 1) =>
              Len(stack) - 1 <= Len(stack[1].sttoks_arr)

-----------------------------------------------------------------------------
(* Vocabulary of the properties about the split point *)

\* The splits made so far by the activations on the stack: an activation that
\* has made a recursive call holds the run it split and the split index.
Splits == { f \in 1..Len(stack) : stack[f].sttoks_arr # << >> }
RunLen(f) == Len(stack[f].sttoks_arr)
Remainder(f) == RunLen(f) - stack[f].lasti - 1

-----------------------------------------------------------------------------
(* C24 - Dangling minimum.  As stated: every split made by split_long_segs,  *)
(* at the top level or in a recursive call, leaves at least min_toks_dangled *)
(* tokens in the re-labeled remainder, except when the run has fewer than    *)
(* min_toks_dangled tokens.                                                  *)
C24_DanglingMinimum ==
    \A f \in Splits :
        Remainder(f) >= min_toks_dangled \/ RunLen(f) < min_toks_dangled

\* C24, amended: every split leaves at least min_toks_dangled tokens in the
\* remainder, except when the run has at most min_toks_dangled tokens; such a
\* run is split after its first token.
C24_DanglingMinimumAmended ==
    \A f \in Splits :
        IF RunLen(f) > min_toks_dangled
          THEN Remainder(f) >= min_toks_dangled
          ELSE stack[f].lasti = 0

\* a run longer than min_toks_dangled split so that exactly min_toks_dangled
\* tokens are re-labeled, after the scan moved the split point forward
C24_Witness ==
    \E f \in Splits :
        /\ min_toks_dangled >= 2
        /\ RunLen(f) > min_toks_dangled
        /\ stack[f].lasti >= 1
        /\ Remainder(f) = min_toks_dangled

-----------------------------------------------------------------------------
(* C25 - No split before an attaching token.  The first token of every run   *)
(* split_long_segs re-labels with the suffix does not start with one of the  *)
(* characters . , - / that attach a token to the one before it.              *)
C25_NoSplitBeforeAttaching ==
    \A f \in Splits :
        Remainder(f) >= 1 =>
            LET first == heap[stack[f].sttoks_arr[stack[f].lasti + 2]].text
            IN  first # << >> => first[1] \notin NO_SPACE_BEFORE

-----------------------------------------------------------------------------
(* C26 - Backtrack window.  When the token at the forward-scan split index   *)
(* does not end in '.' or ',' and one of the max_toks_backtrack tokens       *)
(* before it (distances 1 to max_toks_backtrack) ends in '.' or ',' and is   *)
(* not a listed abbreviation, the split point is the nearest such token;     *)
(* otherwise it is the forward-scan index; it is never moved to an           *)
(* abbreviation.                                                             *)
EndsClause(t) == t[Len(t)] \in {".", ","}
BreakAfter(t) == EndsClause(t) /\ t \notin common_abbrevs

\* the forward-scan split index of the run split by activation f
ScanIndex(f) ==
    ScanLoop(Texts(heap, stack[f].sttoks_arr), 0, << >>, 0,
             max_chars, min_toks_dangled).lasti

\* the split index the window of B tokens before index i0 leads to
WindowIndex(texts, i0, B) ==
    LET near == { b \in 1..B : i0 - b >= 0 /\ BreakAfter(texts[i0 - b + 1]) }
    IN  IF EndsClause(texts[i0 + 1]) \/ near = {} THEN i0
        ELSE i0 - (CHOOSE b \in near : \A c \in near : b <= c)

C26_BacktrackWindow ==
    \A f \in Splits :
        LET texts == Texts(heap, stack[f].sttoks_arr)
        IN  /\ stack[f].lasti = WindowIndex(texts, ScanIndex(f), max_toks_backtrack)
            /\ stack[f].lasti # ScanIndex(f) =>
                  texts[stack[f].lasti + 1] \notin common_abbrevs

-----------------------------------------------------------------------------
(* C27 - Contiguity is preserved.  If every label's tokens are contiguous in *)
(* the table given to split_long_segs and max_chars >= 10, then every        *)
(* label's tokens are contiguous in the table it returns.                    *)
Contiguous(labels) ==
    \A i, j \in 1..Len(labels) :
        (i < j /\ labels[i] = labels[j]) =>
            \A m \in i..j : labels[m] = labels[i]

C27_ContiguityPreserved ==
    ( /\ SplitReturned /\ SplitEnabled
      /\ Contiguous(Labels(heap, split_in)) ) =>
        Contiguous(Labels(heap, split_out))

-----------------------------------------------------------------------------
(* C28 - Disabled splitting leaves token text intact.  For max_chars < 1     *)
(* sanitize_toks_arr returns every token text unchanged, and sanitize ->     *)
(* split -> assemble on a table with tokens completes without error.         *)
C28_DisabledIntact ==
    ( /\ max_chars < 1
      /\ Len(caller) > 0
      /\ \/ calls = << "sanitize" >>
         \/ calls = << "sanitize", "split" >>
         \/ calls = << "sanitize", "split", "assemble" >> ) =>
        /\ err = ""
        /\ \A i \in 1..Len(cur) : heap[cur[i]].text = orig[i].text

-----------------------------------------------------------------------------
(* C30 - Splitter and Assembler measure the same text.  For a same-label run *)
(* of tokens with non-empty text, the length split_long_segs computes to     *)
(* decide whether the run exceeds max_chars is the length of the text        *)
(* make_sts_arr produces for the run, and the running length of every        *)
(* prefix in the forward scan is the length of the assembled prefix.         *)
InFocus == pc = "splitting" /\ Top.k <= Len(Top.st_ids)

\* the text make_sts_arr builds from the first p rows of the run in focus
AssembledPrefix(p) == make_sts_arr(heap, SubSeq(TopSt, 1, p))

\* the text the splitter has accumulated after the first p rows
ScannedPrefix(p) == SplitJoin(SubSeq(TopTexts, 1, p), 1, << >>)

C30_SameMeasure ==
    (InFocus /\ \A i \in 1..Len(TopTexts) : TopTexts[i] # << >>) =>
        /\ \A p \in 1..Len(TopSt) :
              /\ ~AssembledPrefix(p).raises /\ ~ScannedPrefix(p).raises
              /\ Len(AssembledPrefix(p).sts) = 1
              /\ Len(ScannedPrefix(p).st) = Len(AssembledPrefix(p).sts[1].text)
        /\ TooLong(TopTexts, max_chars) <=>
              Len(AssembledPrefix(Len(TopSt)).sts[1].text) > max_chars

\* in focus: a run that is too long, with a token that attaches to the one
\* before it and a token that takes a space
C30_Witness ==
    /\ InFocus /\ Len(TopSt) >= 3
    /\ TooLong(TopTexts, max_chars)
    /\ \E i, j \in 2..Len(TopTexts) :
          /\ TopTexts[i][1] \in NO_SPACE_BEFORE
          /\ TopTexts[j][1] \notin NO_SPACE_BEFORE
    /\ Len(ScannedPrefix(Len(TopSt)).st) < Len(Flatten(TopTexts)) + Len(TopSt) - 1

====
